---- MODULE Spec2Model ----
(***************************************************************************)
(* A model of clockify_gaps.py: the gap computation find_gaps, the         *)
(* grouping of fetched time entries by local day, and the control flow of  *)
(* preview_week (identity lookup, fetch, preview, confirmation prompt,     *)
(* creation of one filler entry per gap).                                  *)
(*                                                                         *)
(* Instants are whole minutes (seconds are dropped, as to_minutes and the  *)
(* "%H:%M" rendering drop them).  A datetime in the local zone is the      *)
(* number of minutes since local midnight of day 0 of the fetched week; a  *)
(* UTC instant is the number of minutes since UTC midnight of that day.    *)
(***************************************************************************)
EXTENDS Integers, Sequences, FiniteSets

VARIABLES
    pc,         \* position of preview_week
    raw_data,   \* the JSON list returned by the interval source
    entries,    \* the (start, end) local datetimes get_entries built
    by_day,     \* local date -> list of (start, end), group_by_local_day
    preview,    \* the rows printed before the prompt: <<day, gaps>>
    answer,     \* what the operator typed at the confirmation prompt
    posts,      \* the bodies handed to post_time_entry, in call order
    reported,   \* number of "POST failed" reports printed
    fg_entries, \* find_gaps called on its own: the entries argument
    fg_window,  \* ... its (start_m, end_m) arguments
    fg_out,     \* ... what the call returned
    fg_pc       \* ... "input" before the call, "done" after it

vars == <<pc, raw_data, entries, by_day, preview, answer, posts, reported,
          fg_entries, fg_window, fg_out, fg_pc>>

main_vars == <<pc, raw_data, entries, by_day, preview, answer, posts, reported>>

fg_vars == <<fg_entries, fg_window, fg_out, fg_pc>>

----------------------------------------------------------------------------
(* Configuration, lines 28-33.                                             *)

MINUTES_PER_HOUR == 60

MINUTES_PER_DAY == 1440

\* LOCAL_TZ = Asia/Manila: UTC+08:00 all year, no daylight saving.
LOCAL_TZ_OFFSET == 480

WORK_START == 540

WORK_END == 1080

LUNCH_START == 720

LUNCH_END == 780

ENTRY_DESC == "[Dev Work, Reviewing code]"

----------------------------------------------------------------------------
(* Datetimes.                                                              *)

Max(a, b) == IF a >= b THEN a ELSE b

Min(a, b) == IF a <= b THEN a ELSE b

\* datetime.date(), .hour and .minute of a local datetime
DateOf(dt) == dt \div MINUTES_PER_DAY

HourOf(dt) == (dt % MINUTES_PER_DAY) \div MINUTES_PER_HOUR

MinuteOf(dt) == dt % MINUTES_PER_HOUR

\* parser.isoparse(x).astimezone(LOCAL_TZ)
astimezone_local(utc) == utc + LOCAL_TZ_OFFSET

\* dt.astimezone(datetime.timezone.utc)
astimezone_utc(local) == local - LOCAL_TZ_OFFSET

to_minutes(dt) == HourOf(dt) * MINUTES_PER_HOUR + MinuteOf(dt)

----------------------------------------------------------------------------
(* pad, to_hhmm and time.fromisoformat: "HH:MM" is the sequence of its     *)
(* characters.                                                             *)

DigitChars == <<"0", "1", "2", "3", "4", "5", "6", "7", "8", "9">>

DigitChar(d) == DigitChars[d + 1]

DigitValue(c) == CHOOSE d \in 0..9 : DigitChars[d + 1] = c

RECURSIVE Decimal(_)
Decimal(n) ==
    IF n < 10 THEN <<DigitChar(n)>>
    ELSE Append(Decimal(n \div 10), DigitChar(n % 10))

\* f"{n:02d}": at least two digits, zero filled
pad(n) == IF n < 10 THEN <<"0">> \o Decimal(n) ELSE Decimal(n)

to_hhmm(m) == pad(m \div MINUTES_PER_HOUR) \o <<":">> \o pad(m % MINUTES_PER_HOUR)

RECURSIVE DecimalValue(_)
DecimalValue(cs) ==
    IF cs = <<>> THEN 0
    ELSE 10 * DecimalValue(SubSeq(cs, 1, Len(cs) - 1)) + DigitValue(cs[Len(cs)])

\* time.fromisoformat("HH:MM") as a minute of the day (the strings find_gaps
\* renders for the window 09:00-18:00 all have an hour below 24)
fromisoformat(hhmm) ==
    DecimalValue(SubSeq(hhmm, 1, 2)) * MINUTES_PER_HOUR
        + DecimalValue(SubSeq(hhmm, 4, 5))

----------------------------------------------------------------------------
(* find_gaps, lines 52-79.                                                 *)

\* tuple comparison of two (start, end) pairs
SpanLeq(a, b) == a[1] < b[1] \/ (a[1] = b[1] /\ a[2] <= b[2])

\* the list left in arrival order
SortSpans_Unsorted(spans) == spans

RECURSIVE InsertSorted(_, _)
InsertSorted(sorted, x) ==
    IF sorted = <<>> THEN <<x>>
    ELSE IF SpanLeq(sorted[Len(sorted)], x) THEN Append(sorted, x)
    ELSE Append(InsertSorted(SubSeq(sorted, 1, Len(sorted) - 1), x),
                sorted[Len(sorted)])

RECURSIVE SortFrom(_, _)
SortFrom(sorted, rest) ==
    IF rest = <<>> THEN sorted
    ELSE SortFrom(InsertSorted(sorted, rest[1]), Tail(rest))

\* spans.sort(), line 62
SortSpans(spans) == SortFrom(<<>>, spans)

\* line 54
SpansOf(es) == [i \in 1..Len(es) |-> <<to_minutes(es[i][1]), to_minutes(es[i][2])>>]

\* lunch not treated as booked
WithLunch_Ignored(spans, start_m, end_m) == spans

\* lines 56-60 (LUNCH_START and LUNCH_END are both set)
WithLunch(spans, start_m, end_m) ==
    LET lunch_s == Max(start_m, LUNCH_START)
        lunch_e == Min(end_m, LUNCH_END)
    IN  IF lunch_s < lunch_e THEN Append(spans, <<lunch_s, lunch_e>>) ELSE spans

\* an overlapping span overwrites the merged end instead of extending it
RECURSIVE MergeLoop_NoMax(_, _)
MergeLoop_NoMax(merged, rest) ==
    IF rest = <<>> THEN merged
    ELSE LET s == rest[1][1]
             e == rest[1][2]
             n == Len(merged)
         IN  IF n = 0 \/ s > merged[n][2]
             THEN MergeLoop_NoMax(Append(merged, <<s, e>>), Tail(rest))
             ELSE MergeLoop_NoMax([merged EXCEPT ![n] = <<merged[n][1], e>>], Tail(rest))

\* lines 63-68
RECURSIVE MergeLoop(_, _)
MergeLoop(merged, rest) ==
    IF rest = <<>> THEN merged
    ELSE LET s == rest[1][1]
             e == rest[1][2]
             n == Len(merged)
         IN  IF n = 0 \/ s > merged[n][2]
             THEN MergeLoop(Append(merged, <<s, e>>), Tail(rest))
             ELSE MergeLoop([merged EXCEPT ![n] = <<merged[n][1], Max(merged[n][2], e)>>],
                            Tail(rest))

\* lines 70-76: the sweep with its cursor, leaving the loop once cur >= end_m
RECURSIVE GapLoop(_, _, _, _)
GapLoop(gaps, cur, rest, end_m) ==
    IF rest = <<>> THEN [gaps |-> gaps, cur |-> cur]
    ELSE LET s == rest[1][1]
             e == rest[1][2]
             g1 == IF cur < s THEN Append(gaps, <<cur, Min(s, end_m)>>) ELSE gaps
             c1 == Max(cur, e)
         IN  IF c1 >= end_m THEN [gaps |-> g1, cur |-> c1]
             ELSE GapLoop(g1, c1, Tail(rest), end_m)

\* lines 77-78
WithTrailing(r, end_m) ==
    IF r.cur < end_m THEN Append(r.gaps, <<r.cur, end_m>>) ELSE r.gaps

\* line 79: keep the gaps of positive length, rendered as "HH:MM" pairs
RECURSIVE RenderGaps(_)
RenderGaps(gaps) ==
    IF gaps = <<>> THEN <<>>
    ELSE LET a == gaps[1][1]
             b == gaps[1][2]
         IN  (IF b > a THEN <<<<to_hhmm(a), to_hhmm(b)>>>> ELSE <<>>)
                 \o RenderGaps(Tail(gaps))

find_gaps(es, start_m, end_m) ==
    LET spans  == WithLunch(SpansOf(es), start_m, end_m)
        merged == MergeLoop(<<>>, SortSpans(spans))
        swept  == GapLoop(<<>>, start_m, merged, end_m)
    IN  RenderGaps(WithTrailing(swept, end_m))

----------------------------------------------------------------------------
(* get_entries, group_by_local_day and the filler loop of preview_week.    *)

\* lines 106-111: the records that carry both a start and an end, localized
RECURSIVE LocalEntries(_)
LocalEntries(data) ==
    IF data = <<>> THEN <<>>
    ELSE LET ti == data[1].timeInterval
         IN  (IF ti.end # <<>>
              THEN <<<<astimezone_local(ti.start), astimezone_local(ti.end[1])>>>>
              ELSE <<>>)
                 \o LocalEntries(Tail(data))

\* the entry filed under the UTC date of its start
DayKey_UtcDate(entry) == DateOf(astimezone_utc(entry[1]))

\* the key an entry is filed under, line 140
DayKey(entry) == DateOf(entry[1])

\* lines 136-141: a dict from date to the entries in arrival order
group_by_local_day(es) ==
    LET days == {DayKey(es[i]) : i \in 1..Len(es)}
    IN  [d \in days |-> SelectSeq(es, LAMBDA x : DayKey(x) = d)]

\* sorted(by_day)
RECURSIVE SortedDays(_)
SortedDays(days) ==
    IF days = {} THEN <<>>
    ELSE LET lo == CHOOSE d \in days : \A o \in days : d <= o
         IN  <<lo>> \o SortedDays(days \ {lo})

\* lines 180-183: one printed row per day of by_day
PreviewRows(bd) ==
    LET ds == SortedDays(DOMAIN bd)
    IN  [i \in 1..Len(ds) |-> <<ds[i], find_gaps(bd[ds[i]], WORK_START, WORK_END)>>]

\* line 197: the first record of raw_data, in the order received, whose
\* localized start falls on the day (<<>> when there is none)
first_raw(data, day) ==
    LET hits == SelectSeq(data,
                    LAMBDA t : DateOf(astimezone_local(t.timeInterval.start)) = day)
    IN  IF hits = <<>> THEN <<>> ELSE <<hits[1]>>

\* x or y, for identifiers ("" is absent)
OrElse(x, y) == IF x # "" THEN x ELSE y

\* the local wall-clock time sent as if it were UTC
PostBody_NaiveTime(day, gap, raw) ==
    [start       |-> day * MINUTES_PER_DAY + fromisoformat(gap[1]),
     end         |-> day * MINUTES_PER_DAY + fromisoformat(gap[2]),
     billable    |-> IF raw.billable = "absent" THEN TRUE ELSE raw.billable = "true",
     projectId   |-> OrElse(raw.projectId, raw.project),
     taskId      |-> OrElse(raw.taskId, raw.task),
     description |-> ENTRY_DESC]

\* lines 118-127 with 206-207: the body of one POST
PostBody(day, gap, raw) ==
    LET s_dt == day * MINUTES_PER_DAY + fromisoformat(gap[1])
        e_dt == day * MINUTES_PER_DAY + fromisoformat(gap[2])
    IN  [start       |-> astimezone_utc(s_dt),
         end         |-> astimezone_utc(e_dt),
         billable    |-> IF raw.billable = "absent" THEN TRUE
                         ELSE raw.billable = "true",
         projectId   |-> OrElse(raw.projectId, raw.project),
         taskId      |-> OrElse(raw.taskId, raw.task),
         description |-> ENTRY_DESC]

RECURSIVE BodiesOf(_, _, _)
BodiesOf(day, gaps, raw) ==
    IF gaps = <<>> THEN <<>>
    ELSE <<PostBody(day, gaps[1], raw)>> \o BodiesOf(day, Tail(gaps), raw)

\* lines 194-210: the calls of post_time_entry the loop makes when none raises
RECURSIVE PlanFrom(_, _, _)
PlanFrom(ds, bd, data) ==
    IF ds = <<>> THEN <<>>
    ELSE LET day == ds[1]
             fr  == first_raw(data, day)
         IN  (IF bd[day] = <<>> \/ fr = <<>> THEN <<>>
              ELSE BodiesOf(day, find_gaps(bd[day], WORK_START, WORK_END), fr[1]))
                 \o PlanFrom(Tail(ds), bd, data)

CreatePlan(bd, data) == PlanFrom(SortedDays(DOMAIN bd), bd, data)

\* input(...).strip().lower(), line 189
RECURSIVE Strip(_)
Strip(cs) ==
    IF cs = <<>> THEN cs
    ELSE IF cs[1] = " " THEN Strip(Tail(cs))
    ELSE IF cs[Len(cs)] = " " THEN Strip(SubSeq(cs, 1, Len(cs) - 1))
    ELSE cs

LowerChar(c) == IF c = "Y" THEN "y" ELSE IF c = "N" THEN "n" ELSE c

Lower(cs) == [i \in 1..Len(cs) |-> LowerChar(cs[i])]

\* any answer that begins with "y" taken as consent
Confirmed_StartsWithY(typed) ==
    Lower(Strip(typed)) # <<>> /\ Lower(Strip(typed))[1] = "y"

\* line 190
Confirmed(typed) == Lower(Strip(typed)) = <<"y">>

----------------------------------------------------------------------------
(* Bounds and inputs.                                                      *)

\* longest list the interval source returns
MaxRecords == 2

\* longest entries list find_gaps is called on by itself
MaxSpans == 2

SeqsUpTo(S, n) == UNION {[1..k -> S] : k \in 0..n}

\* UTC (start, end) pairs; local time is eight hours ahead.
\*   120..180    10:00-11:00 on day 0
\*   360..360    14:00-14:00 on day 0, start and end in the same minute
\*   360..420    14:00-15:00 on day 0
\*   120..1020   10:00 on day 0 to 01:00 on day 1, past local midnight
\*   1380..1440  07:00-08:00 on day 1 (its UTC start is still on day 0)
\*   1380..2280  07:00-22:00 on day 1, over the whole working window
ClosedIntervals ==
    {<<120, 180>>, <<360, 360>>, <<360, 420>>, <<120, 1020>>,
     <<1380, 1440>>, <<1380, 2280>>}

\* a running timer, started 14:00 on day 0, has no end yet
RunningStarts == {360}

RawIntervals ==
    {[start |-> x[1], end |-> <<x[2]>>] : x \in ClosedIntervals}
        \cup {[start |-> s, end |-> <<>>] : s \in RunningStarts}

RawAttribution ==
    {[projectId |-> "p1", project |-> "", taskId |-> "t1", task |-> "",
      billable |-> "false"],
     [projectId |-> "", project |-> "p2", taskId |-> "", task |-> "",
      billable |-> "absent"]}

RawRecords ==
    {[timeInterval |-> ti, projectId |-> a.projectId, project |-> a.project,
      taskId |-> a.taskId, task |-> a.task, billable |-> a.billable]
        : ti \in RawIntervals, a \in RawAttribution}

Answers == {<<"y">>, <<" ", "Y", " ">>, <<"n">>, <<>>, <<"y", "e", "s">>}

PostOutcomes == {"2xx", "non2xx", "raise"}

\* local datetimes on day 0: before the window, its start, inside it, inside
\* lunch, the window's end, after it; and 01:00 on day 1
FGStarts == {530, 540, 600, 750, 1080, 1100}

FGIntervals ==
    {<<s, e>> \in FGStarts \X FGStarts : s <= e}
        \cup {<<s, 1500>> : s \in {600, 1100}}

FGWindows == {<<WORK_START, WORK_END>>, <<700, 760>>, <<750, 800>>, <<600, 700>>}

----------------------------------------------------------------------------
(* The run of preview_week.                                                *)

MainIdle ==
    /\ pc = "idle"
    /\ raw_data = <<>>
    /\ entries = <<>>
    /\ by_day = <<>>
    /\ preview = <<>>
    /\ answer = <<"?">>
    /\ posts = <<>>
    /\ reported = 0

MainInit ==
    /\ pc = "start"
    /\ raw_data = <<>>
    /\ entries = <<>>
    /\ by_day = <<>>
    /\ preview = <<>>
    /\ answer = <<"?">>
    /\ posts = <<>>
    /\ reported = 0

FGIdle ==
    /\ fg_pc = "idle"
    /\ fg_entries = <<>>
    /\ fg_window = <<WORK_START, WORK_END>>
    /\ fg_out = <<>>

FGInit ==
    /\ fg_pc = "input"
    /\ fg_entries \in SeqsUpTo(FGIntervals, MaxSpans)
    /\ fg_window \in FGWindows
    /\ fg_out = <<>>

\* lines 146-147: get_user_info returns, or raise_for_status raises
GetUserInfo ==
    /\ pc = "start"
    /\ \E ok \in BOOLEAN : pc' = IF ok THEN "fetch" ELSE "halted"
    /\ UNCHANGED <<raw_data, entries, by_day, preview, answer, posts, reported>>
    /\ UNCHANGED fg_vars

\* line 175: get_entries returns (entries, raw_data), or raises.  The date
\* asked for at lines 158-172 only selects the week that is fetched.
GetEntries ==
    /\ pc = "fetch"
    /\ \/ /\ pc' = "halted"
          /\ UNCHANGED <<raw_data, entries>>
       \/ \E data \in SeqsUpTo(RawRecords, MaxRecords) :
             /\ raw_data' = data
             /\ entries' = LocalEntries(data)
             /\ pc' = "group"
    /\ UNCHANGED <<by_day, preview, answer, posts, reported>>
    /\ UNCHANGED fg_vars

\* lines 178-186
GroupAndPreview ==
    /\ pc = "group"
    /\ by_day' = group_by_local_day(entries)
    /\ preview' = PreviewRows(by_day')
    /\ pc' = "prompt"
    /\ UNCHANGED <<raw_data, entries, answer, posts, reported>>
    /\ UNCHANGED fg_vars

\* lines 189-191
Prompt ==
    /\ pc = "prompt"
    /\ \E typed \in Answers :
          /\ answer' = typed
          /\ pc' = IF Confirmed(typed) THEN "creating" ELSE "done"
    /\ UNCHANGED <<raw_data, entries, by_day, preview, posts, reported>>
    /\ UNCHANGED fg_vars

\* line 210, lines 115-133: the next call of post_time_entry; requests.post
\* answers 2xx, answers something else (reported), or raises
PostNext ==
    /\ pc = "creating"
    /\ Len(posts) < Len(CreatePlan(by_day, raw_data))
    /\ posts' = Append(posts, CreatePlan(by_day, raw_data)[Len(posts) + 1])
    /\ \E outcome \in PostOutcomes :
          /\ reported' = IF outcome = "non2xx" THEN reported + 1 ELSE reported
          /\ pc' = IF outcome = "raise" THEN "crashed" ELSE "creating"
    /\ UNCHANGED <<raw_data, entries, by_day, preview, answer>>
    /\ UNCHANGED fg_vars

\* the loop of line 194 is exhausted
CreateDone ==
    /\ pc = "creating"
    /\ Len(posts) = Len(CreatePlan(by_day, raw_data))
    /\ pc' = "done"
    /\ UNCHANGED <<raw_data, entries, by_day, preview, answer, posts, reported>>
    /\ UNCHANGED fg_vars

\* find_gaps called on its own
FGCall ==
    /\ fg_pc = "input"
    /\ fg_out' = find_gaps(fg_entries, fg_window[1], fg_window[2])
    /\ fg_pc' = "done"
    /\ UNCHANGED <<fg_entries, fg_window>>
    /\ UNCHANGED main_vars

Init == MainInit /\ FGIdle

Next == GetUserInfo \/ GetEntries \/ GroupAndPreview \/ Prompt \/ PostNext \/ CreateDone

Spec == Init /\ [][Next]_vars

InitFG == MainIdle /\ FGInit

NextFG == FGCall

SpecFG == InitFG /\ [][NextFG]_vars

\* both harnesses side by side: a run of preview_week, or one call of find_gaps
InitAll == Init \/ InitFG

NextAll == Next \/ NextFG

SpecAll == InitAll /\ [][NextAll]_vars

----------------------------------------------------------------------------
(* Vocabulary of the properties.                                           *)

\* the gaps find_gaps returned, read back as (start minute, end minute)
ParsedGaps(out) ==
    [i \in 1..Len(out) |-> <<fromisoformat(out[i][1]), fromisoformat(out[i][2])>>]

\* minute m lies in the half-open span [sp[1], sp[2])
InSpan(m, sp) == sp[1] <= m /\ m < sp[2]

Overlap(a, b) == a[1] < b[2] /\ b[1] < a[2]

FGSpans == SpansOf(fg_entries)

FGGaps == ParsedGaps(fg_out)

FGLunch == <<Max(fg_window[1], LUNCH_START), Min(fg_window[2], LUNCH_END)>>

\* every busy span has start minute <= end minute
FGWellFormed == \A i \in 1..Len(FGSpans) : FGSpans[i][1] <= FGSpans[i][2]

\* minute m is taken by a busy span or by the break clipped to the window
FGTaken(m) ==
    \/ \E i \in 1..Len(FGSpans) : InSpan(m, FGSpans[i])
    \/ InSpan(m, FGLunch)

Answered == pc \in {"creating", "done", "crashed"}

\* the previewed gaps in print order, each with its day
RECURSIVE FlatRows(_)
FlatRows(rows) ==
    IF rows = <<>> THEN <<>>
    ELSE [i \in 1..Len(rows[1][2]) |-> <<rows[1][1], rows[1][2][i]>>]
             \o FlatRows(Tail(rows))

LocalStart(body) == astimezone_local(body.start)

LocalEnd(body) == astimezone_local(body.end)

----------------------------------------------------------------------------
(* C1: for busy spans with start <= end, in any order, overlapping or      *)
(* reaching outside the window, a minute of the window lies in a returned  *)
(* gap exactly when no busy span and not the clipped break takes it; the   *)
(* gaps lie inside the window and no two of them overlap; a busy span      *)
(* equal to the window leaves no gap.                                      *)
C1_Coverage ==
    (fg_pc = "done" /\ FGWellFormed) =>
        /\ \A m \in fg_window[1]..(fg_window[2] - 1) :
              (\E i \in 1..Len(FGGaps) : InSpan(m, FGGaps[i])) <=> ~FGTaken(m)
        /\ \A i \in 1..Len(FGGaps) :
              /\ fg_window[1] <= FGGaps[i][1]
              /\ FGGaps[i][1] < FGGaps[i][2]
              /\ FGGaps[i][2] <= fg_window[2]
        /\ \A i, j \in 1..Len(FGGaps) : i # j => ~Overlap(FGGaps[i], FGGaps[j])
        /\ (\E i \in 1..Len(FGSpans) : FGSpans[i] = fg_window) => fg_out = <<>>

\* out-of-order spans, one reaching outside the window, with a gap left
C1_Witness ==
    /\ fg_pc = "done"
    /\ FGWellFormed
    /\ fg_window = <<WORK_START, WORK_END>>
    /\ Len(FGSpans) = 2
    /\ FGSpans[1][1] > FGSpans[2][1]
    /\ FGSpans[2][1] < WORK_START
    /\ Overlap(FGSpans[1], FGSpans[2])
    /\ Len(fg_out) >= 1

(* C2: for every list of minute pairs, those of an interval that crosses   *)
(* midnight included, the returned gaps are pairwise disjoint and sorted   *)
(* ascending by start.                                                     *)
C2_DisjointSorted ==
    fg_pc = "done" =>
        \A i, j \in 1..Len(FGGaps) :
            i < j => /\ FGGaps[i][1] <= FGGaps[j][1]
                     /\ ~Overlap(FGGaps[i], FGGaps[j])

(* C3: when the break clipped to the window is not empty, no returned gap  *)
(* overlaps it, whatever the busy spans; and no filler handed to           *)
(* post_time_entry covers a minute of the break.                           *)
C3_BreakNeverOffered ==
    /\ (fg_pc = "done" /\ FGLunch[1] < FGLunch[2]) =>
          \A i \in 1..Len(FGGaps) : ~Overlap(FGGaps[i], FGLunch)
    /\ \A k \in 1..Len(posts) :
          /\ DateOf(LocalStart(posts[k])) = DateOf(LocalEnd(posts[k]))
          /\ ~Overlap(<<to_minutes(LocalStart(posts[k])), to_minutes(LocalEnd(posts[k]))>>,
                      <<LUNCH_START, LUNCH_END>>)

\* a window that ends inside the break, with a gap before the break
C3_Witness ==
    /\ fg_pc = "done"
    /\ fg_window[2] < LUNCH_END
    /\ FGLunch[1] < FGLunch[2]
    /\ Len(fg_entries) > 0
    /\ fg_out # <<>>

PermutationsOf(s) ==
    {[i \in 1..Len(s) |-> s[p[i]]] :
        p \in {q \in [1..Len(s) -> 1..Len(s)] : \A a, b \in 1..Len(s) : a # b => q[a] # q[b]}}

(* C4: find_gaps depends only on the multiset of entries and the window:   *)
(* after a call, calling it on the caller's list again, or on any          *)
(* permutation of it, returns what the call returned.                      *)
C4_OrderIrrelevant ==
    fg_pc = "done" =>
        \A es \in PermutationsOf(fg_entries) :
            find_gaps(es, fg_window[1], fg_window[2]) = fg_out

\* two different entries, passed later-first, with a gap returned
C4_Witness ==
    /\ fg_pc = "done"
    /\ Len(fg_entries) = 2
    /\ fg_entries[1][1] > fg_entries[2][1]
    /\ fg_out # <<>>

(* C5: for busy spans with start <= end, those with start = end included,  *)
(* every returned gap is maximal: consecutive gaps do not touch, and a gap *)
(* cannot be extended by a minute on either side without leaving the       *)
(* window or entering a busy span or the break.                            *)
C5_GapsMaximal ==
    (fg_pc = "done" /\ FGWellFormed) =>
        /\ \A i \in 1..(Len(FGGaps) - 1) : FGGaps[i][2] < FGGaps[i + 1][1]
        /\ \A i \in 1..Len(FGGaps) :
              /\ FGGaps[i][1] = fg_window[1] \/ FGTaken(FGGaps[i][1] - 1)
              /\ FGGaps[i][2] = fg_window[2] \/ FGTaken(FGGaps[i][2])

(* C6: post_time_entry is not invoked before the operator has answered the *)
(* prompt; an answer other than "y" (trimmed, lower-cased) ends the run    *)
(* with no invocation; a failed identity lookup or fetch halts the run     *)
(* before the prompt, with no invocation.                                  *)
C6_NoPostWithoutConsent ==
    /\ posts # <<>> => Answered /\ Lower(Strip(answer)) = <<"y">>
    /\ (Answered /\ Lower(Strip(answer)) # <<"y">>) => pc = "done" /\ posts = <<>>
    /\ pc = "halted" => posts = <<>> /\ answer = <<"?">> /\ preview = <<>>

\* the operator typed "yes" with gaps on show: nothing is posted
C6_Witness ==
    /\ pc = "done"
    /\ answer = <<"y", "e", "s">>
    /\ FlatRows(preview) # <<>>
    /\ posts = <<>>

\* the busy records grouped under a date: those of raw_data with an end
BusyRecordsOf(day) ==
    {i \in 1..Len(raw_data) :
        /\ raw_data[i].timeInterval.end # <<>>
        /\ DateOf(astimezone_local(raw_data[i].timeInterval.start)) = day}

(* C7: the project, task and billable flag of every filler of a date are   *)
(* those of a busy record of that date with the earliest start, whatever   *)
(* the order of raw_data.                                                  *)
C7_FirstChronological ==
    \A k \in 1..Len(posts) :
        \E i \in BusyRecordsOf(DateOf(LocalStart(posts[k]))) :
            /\ \A j \in BusyRecordsOf(DateOf(LocalStart(posts[k]))) :
                  raw_data[i].timeInterval.start <= raw_data[j].timeInterval.start
            /\ posts[k].projectId = OrElse(raw_data[i].projectId, raw_data[i].project)
            /\ posts[k].taskId = OrElse(raw_data[i].taskId, raw_data[i].task)
            /\ posts[k].billable = (raw_data[i].billable # "false")

(* C8: once the operator has confirmed, the run ends with a submission     *)
(* attempted for every previewed gap of every day, also when earlier       *)
(* submissions failed.                                                     *)
C8_EveryGapAttempted ==
    (pc \in {"done", "crashed"} /\ Lower(Strip(answer)) = <<"y">>) =>
        Len(posts) = Len(FlatRows(preview))

(* C9: when the operator confirms and every submission returns, the        *)
(* submissions are the previewed gaps, one each and in print order (dates  *)
(* ascending, starts ascending within a date), each on the date of its     *)
(* bucket and labelled ENTRY_DESC; before the end they are a prefix.       *)
C9_PostsFollowPreview ==
    LET flat == FlatRows(preview)
    IN  /\ Len(posts) <= Len(flat)
        /\ (pc = "done" /\ Lower(Strip(answer)) = <<"y">>) => Len(posts) = Len(flat)
        /\ \A k \in 1..Len(posts) :
              /\ DateOf(LocalStart(posts[k])) = flat[k][1]
              /\ DateOf(LocalEnd(posts[k])) = flat[k][1]
              /\ to_hhmm(to_minutes(LocalStart(posts[k]))) = flat[k][2][1]
              /\ to_hhmm(to_minutes(LocalEnd(posts[k]))) = flat[k][2][2]
              /\ posts[k].description = ENTRY_DESC
        /\ \A k, l \in 1..Len(posts) :
              k < l => LocalStart(posts[k]) <= LocalStart(posts[l])

\* a confirmed run over two days that posted every previewed gap
C9_Witness ==
    /\ pc = "done"
    /\ Len(posts) >= 3
    /\ Len(posts) = Len(FlatRows(preview))
    /\ DateOf(LocalStart(posts[1])) # DateOf(LocalStart(posts[Len(posts)]))
    /\ reported > 0

Occurrences(s, x) == Cardinality({i \in 1..Len(s) : s[i] = x})

Grouped == pc \in {"prompt", "creating", "done", "crashed"}

(* C10: group_by_local_day files every fetched interval, whole, in exactly *)
(* one bucket, that of the local date of its start; no bucket is empty;    *)
(* and only dates on which an interval starts have a bucket, a preview row *)
(* or a filler.                                                            *)
C10_GroupedByStartDate ==
    Grouped =>
        /\ \A d \in DOMAIN by_day :
              /\ by_day[d] # <<>>
              /\ \A i \in 1..Len(by_day[d]) : DateOf(by_day[d][i][1]) = d
        /\ \A i \in 1..Len(entries) :
              /\ DateOf(entries[i][1]) \in DOMAIN by_day
              /\ \A d \in DOMAIN by_day :
                    Occurrences(by_day[d], entries[i]) =
                        IF d = DateOf(entries[i][1])
                        THEN Occurrences(entries, entries[i]) ELSE 0
        /\ {preview[r][1] : r \in 1..Len(preview)} = DOMAIN by_day
        /\ \A k \in 1..Len(posts) : DateOf(LocalStart(posts[k])) \in DOMAIN by_day

\* two buckets, one holding an interval that ends on the next date
C10_Witness ==
    /\ Grouped
    /\ Cardinality(DOMAIN by_day) = 2
    /\ \E i \in 1..Len(entries) : DateOf(entries[i][1]) # DateOf(entries[i][2])

====
